---- MODULE Spec2Model ----
(***************************************************************************)
(* US Cities Population Dashboard (src/app.py).                            *)
(*                                                                         *)
(* The module-level dataset cities_df is loaded and sorted once; the Dash  *)
(* callback update_charts recomputes the chart list from the current       *)
(* values of the checklist, the dropdown and the slider, using             *)
(* filter_by_checkboxes for the checklist entries.                         *)
(*                                                                         *)
(* Python values: None is the empty tuple and a present value v is <<v>>   *)
(* wherever the code lets a value be None (slider value, the members of    *)
(* filter_by_checkboxes' result, a chart's color).  Lists and data frames  *)
(* are sequences, strings are strings.                                     *)
(***************************************************************************)
EXTENDS Integers, Sequences, FiniteSets, TLC

VARIABLES
    cities_df,   \* the module-level data frame: a sequence of rows
    request,     \* per session: the control values of the latest callback request
    pc,          \* per session: where its update_charts call stands
    charts,      \* per session: the call's local list `charts`
    slider_text, \* per session: the call's local `slider_text`
    response,    \* per session: what the latest call returned
    option,      \* argument of a direct filter_by_checkboxes call
    resolved     \* result of a direct filter_by_checkboxes call

vars == <<cities_df, request, pc, charts, slider_text, response, option, resolved>>

----------------------------------------------------------------------------
(* Bounds of the model *)

\* largest number of rows the csv file holds
MaxRows == 21
\* longest checklist value of a request
MaxChecklist == 2
\* longest dropdown value of a request
MaxDropdown == 2

----------------------------------------------------------------------------
(* Python values *)

None == <<>>
Some(v) == <<v>>

Range(seq) == {seq[i] : i \in 1..Len(seq)}

Min(a, b) == IF a < b THEN a ELSE b
Max(a, b) == IF a > b THEN a ELSE b

Digits == <<"0", "1", "2", "3", "4", "5", "6", "7", "8", "9">>

\* str(n) for an integer n
RECURSIVE Str(_)
Str(n) ==
    IF n < 0 THEN "-" \o Str(-n)
    ELSE IF n < 10 THEN Digits[n + 1]
    ELSE Str(n \div 10) \o Digits[(n % 10) + 1]

\* what an f-string renders for an int-or-None value
Format(v) == IF v = None THEN "None" ELSE Str(v[1])

\* bool(v) for an int-or-None value
Truthy(v) == v # None /\ v[1] # 0

SeqsUpTo(S, n) == UNION {[1..k -> S] : k \in 0..n}

----------------------------------------------------------------------------
(* The data frame *)

CsvNames == <<"New York", "Los Angeles", "Chicago", "Houston", "Philadelphia",
              "Phoenix", "San Antonio", "San Diego", "Dallas">>

\* row i of the csv file: columns name, pop, lat, lon.  The file is not
\* assumed sorted, names repeat and populations tie.
CsvRow(i) ==
    [name |-> CsvNames[((i - 1) % Len(CsvNames)) + 1],
     pop  |-> ((i * 7) % 13) * 1000,
     lat  |-> i,
     lon  |-> 0 - i]

\* pd.read_csv(URL) of a file of n rows
ReadCsv(n) == [i \in 1..n |-> CsvRow(i)]

\* the two orders a sort may leave rows of equal population in
TieOrders == {"file", "reversed"}

\* row r goes before row s in a descending sort by pop
Before(r, s, ties) ==
    \/ r.pop > s.pop
    \/ r.pop = s.pop /\ ties = "reversed"

RECURSIVE InsertRow(_, _, _)
InsertRow(sorted, r, ties) ==
    IF sorted = <<>> THEN <<r>>
    ELSE IF Before(r, Head(sorted), ties) THEN <<r>> \o sorted
    ELSE <<Head(sorted)>> \o InsertRow(Tail(sorted), r, ties)

RECURSIVE SortFrom(_, _, _)
SortFrom(df, k, ties) ==
    IF k = 0 THEN <<>>
    ELSE InsertRow(SortFrom(df, k - 1, ties), df[k], ties)

\* a mis-sort: ascending
SortValuesAscending(df, ties) ==
    LET d == SortFrom(df, Len(df), ties)
    IN  [i \in 1..Len(d) |-> d[Len(d) + 1 - i]]

\* df.sort_values(by='pop', ascending=False)
SortValues(df, ties) == SortFrom(df, Len(df), ties)

\* a head that stops one row short
headOneShort(df, n) ==
    SubSeq(df, 1, Min(n - 1, Len(df)))

\* df.head(n)
head(df, n) ==
    IF n >= 0 THEN SubSeq(df, 1, Min(n, Len(df)))
    ELSE SubSeq(df, 1, Max(Len(df) + n, 0))

\* a tail that takes the rows from the front
tailFromFront(df, n) ==
    SubSeq(df, 1, Min(n, Len(df)))

\* df.tail(n), n >= 0
tail(df, n) ==
    IF n = 0 THEN <<>>
    ELSE SubSeq(df, Len(df) - Min(n, Len(df)) + 1, Len(df))

\* a selection that walks the values and collects each one's rows
RECURSIVE isinByValue(_, _)
isinByValue(df, values) ==
    IF values = <<>> THEN <<>>
    ELSE LET Named(r) == r.name = Head(values)
         IN  SelectSeq(df, Named) \o isinByValue(df, Tail(values))

\* df[df['name'].isin(values)]
isin(df, values) ==
    LET Keep(r) == r.name \in Range(values)
    IN  SelectSeq(df, Keep)

IsSortedDescending(df) ==
    \A i \in 1..(Len(df) - 1) : df[i].pop >= df[i + 1].pop

----------------------------------------------------------------------------
(* The layout's controls *)

\* dcc.Checklist options
FilterKeys == {"top5", "bottom5", "top10", "largest10", "smallest10"}

\* a checklist entry the layout does not offer
UnknownKeys == {"top3"}

ChecklistValues == FilterKeys \cup UnknownKeys

\* dcc.Slider min, max and value
SliderMin == 1
SliderMax == 20
SliderDefault == 10

\* a layout whose checklist starts empty
LayoutDefaultsEmptyChecklist ==
    [selected_options |-> <<>>,
     selected_cities  |-> <<>>,
     slider_value     |-> Some(SliderDefault)]

\* the layout's initial control values
LayoutDefaults ==
    [selected_options |-> <<"top5">>,
     selected_cities  |-> <<>>,
     slider_value     |-> Some(SliderDefault)]

----------------------------------------------------------------------------
(* filter_by_checkboxes *)

\* the dictionary `filters`, built from the data frame at each call
filters ==
    [k \in FilterKeys |->
        CASE k = "top5" ->
               [data  |-> head(cities_df, 5),
                type  |-> "bar",
                title |-> "Top 5 Most Populous US Cities (2014)",
                color |-> Some("#3498db")]
          [] k = "bottom5" ->
               [data  |-> tail(cities_df, 5),
                type  |-> "bar",
                title |-> "Bottom 5 Least Populous US Cities (2014)",
                color |-> Some("#e74c3c")]
          [] k = "top10" ->
               [data  |-> head(cities_df, 10),
                type  |-> "bar",
                title |-> "Top 10 Most Populous US Cities (2014)",
                color |-> Some("#2ecc71")]
          [] k = "largest10" ->
               [data  |-> head(cities_df, 10),
                type  |-> "map",
                title |-> "Largest 10 US Cities by Population (2014) - Geographic View",
                color |-> None]
          [] k = "smallest10" ->
               [data  |-> tail(cities_df, 10),
                type  |-> "map",
                title |-> "Smallest 10 US Cities by Population (2014) - Geographic View",
                color |-> None]]

\* the tuple (None, None, None, None)
NoFilter == [df |-> None, type |-> None, title |-> None, color |-> None]

\* the tuple (data, type, title, color) of a filters entry
FilterTuple(filter_config) ==
    [df    |-> Some(filter_config.data),
     type  |-> Some(filter_config.type),
     title |-> Some(filter_config.title),
     color |-> filter_config.color]

\* a lookup that falls back to the first entry instead of None
filter_by_checkboxesDefaulting(opt) ==
    IF opt \in DOMAIN filters THEN FilterTuple(filters[opt])
    ELSE FilterTuple(filters["top5"])

filter_by_checkboxes(opt) ==
    IF opt \in DOMAIN filters THEN FilterTuple(filters[opt])
    ELSE NoFilter

----------------------------------------------------------------------------
(* Chart builders.  A figure is its kind, the rows it plots in plotting    *)
(* order, its title and its single fixed color (None: colored per city).   *)
(* dcc.Graph(figure=fig) is the figure.                                    *)

create_bar_chart(df, title, color) ==
    [kind |-> "bar", rows |-> df, title |-> title, color |-> color]

create_geo_map(df, title) ==
    [kind |-> "map", rows |-> df, title |-> title, color |-> None]

----------------------------------------------------------------------------
(* update_charts *)

NoSelectionMessage ==
    "Please select at least one option from the checkboxes, choose specific cities from the dropdown, or use the slider."

\* html.Div(message)
Div(message) == [component |-> "Div", text |-> message, graphs |-> <<>>]

\* a list of dcc.Graph components
GraphList(figs) == [component |-> "list", text |-> "", graphs |-> figs]

\* nothing returned yet
Pending == [children |-> [component |-> "none", text |-> "", graphs |-> <<>>],
            slider_output |-> ""]

SliderText(slider_value) ==
    "Displaying top " \o Format(slider_value) \o " cities"

\* the charts the dropdown block appends
DropdownCharts(selected_cities) ==
    IF Len(selected_cities) > 0
    THEN LET custom_df == isin(cities_df, selected_cities)
             n == Str(Len(selected_cities))
         IN  <<create_bar_chart(custom_df,
                   "Selected Cities Population (" \o n \o " cities)",
                   Some("#9b59b6")),
               create_geo_map(custom_df,
                   "Selected Cities - Geographic View (" \o n \o " cities)")>>
    ELSE <<>>

\* a slider block guarded by `is not None`
SliderChartsIfNotNone(slider_value) ==
    IF slider_value # None
    THEN LET top_n_df == head(cities_df, slider_value[1])
             n == Format(slider_value)
         IN  <<create_bar_chart(top_n_df,
                   "Top " \o n \o " Most Populous US Cities (2014)",
                   Some("#f39c12")),
               create_geo_map(top_n_df,
                   "Top " \o n \o " US Cities - Geographic View")>>
    ELSE <<>>

\* the charts the slider block appends
SliderCharts(slider_value) ==
    IF Truthy(slider_value)
    THEN LET top_n_df == head(cities_df, slider_value[1])
             n == Format(slider_value)
         IN  <<create_bar_chart(top_n_df,
                   "Top " \o n \o " Most Populous US Cities (2014)",
                   Some("#f39c12")),
               create_geo_map(top_n_df,
                   "Top " \o n \o " US Cities - Geographic View")>>
    ELSE <<>>

\* the charts one checklist entry appends
OptionCharts(opt) ==
    LET r == filter_by_checkboxes(opt)
    IN  IF r.df # None
        THEN IF r.type = Some("bar")
             THEN <<create_bar_chart(r.df[1], r.title[1], r.color)>>
             ELSE IF r.type = Some("map")
             THEN <<create_geo_map(r.df[1], r.title[1])>>
             ELSE <<>>
        ELSE <<>>

\* the charts the checklist loop appends
RECURSIVE ChecklistCharts(_)
ChecklistCharts(selected_options) ==
    IF selected_options = <<>> THEN <<>>
    ELSE OptionCharts(Head(selected_options))
            \o ChecklistCharts(Tail(selected_options))

\* a return whose message path leaves the status text out
ReturnWithoutText(chartList, text) ==
    IF chartList = <<>>
    THEN [children |-> Div(NoSelectionMessage), slider_output |-> ""]
    ELSE [children |-> GraphList(chartList), slider_output |-> text]

\* the final return statements
Return(chartList, text) ==
    IF chartList = <<>>
    THEN [children |-> Div(NoSelectionMessage), slider_output |-> text]
    ELSE [children |-> GraphList(chartList), slider_output |-> text]

\* the checklist block run before the other two
update_chartsChecklistFirst(selected_options, selected_cities, slider_value) ==
    Return(ChecklistCharts(selected_options)
               \o DropdownCharts(selected_cities)
               \o SliderCharts(slider_value),
           SliderText(slider_value))

\* the whole callback
update_charts(selected_options, selected_cities, slider_value) ==
    Return(DropdownCharts(selected_cities)
               \o SliderCharts(slider_value)
               \o ChecklistCharts(selected_options),
           SliderText(slider_value))

----------------------------------------------------------------------------
(* Inputs *)

Sessions == {"s1", "s2"}

\* the frames a load can produce from files of the given row counts
Frames(counts) ==
    {SortValues(ReadCsv(n), t) : n \in counts, t \in TieOrders}

AllCounts == 0..MaxRows
\* the empty file, the full file and two sizes between
SampledCounts == {0, MaxRows \div 3, 2 * (MaxRows \div 3), MaxRows}

\* dropdown entries: two names of the file and one that is not in it
DropdownValues == {CsvNames[1], CsvNames[2], "Atlantis"}

\* slider values the layout's slider can send, and no value
SliderValues == {None} \cup {Some(n) : n \in SliderMin..SliderMax}

\* no value, the slider's ends and default, and 5, whose bar chart has the
\* title of the top5 chart
SampledSliderValues ==
    {None, Some(SliderMin), Some(5), Some(SliderDefault), Some(SliderMax)}

\* values a request can carry that the slider itself cannot send
RawSliderValues == SampledSliderValues \cup {Some(0), Some(0 - 1)}

Requests(options, cities, sliders) ==
    [selected_options : options, selected_cities : cities, slider_value : sliders]

\* control values of the sessions of the served page
SessionRequests ==
    Requests({<<>>, <<"top5">>, <<"bottom5", "largest10">>},
             {<<>>, <<CsvNames[2], CsvNames[1]>>},
             {None, Some(SliderDefault)})

Idle == [s \in Sessions |-> "idle"]

----------------------------------------------------------------------------
(* The served page: each session's callback runs block by block, and the   *)
(* calls of different sessions overlap.                                    *)

Init ==
    /\ cities_df \in Frames(SampledCounts)
    /\ request = [s \in Sessions |-> LayoutDefaults]
    /\ pc = [s \in Sessions |-> "load"]
    /\ charts = [s \in Sessions |-> <<>>]
    /\ slider_text = [s \in Sessions |-> ""]
    /\ response = [s \in Sessions |-> Pending]
    /\ option = ""
    /\ resolved = NoFilter

\* a call that keeps the list of the session's previous call
EnterKeepingCharts(s, r) ==
    /\ request' = [request EXCEPT ![s] = r]
    /\ charts' = [charts EXCEPT ![s] = response[s].children.graphs]
    /\ slider_text' = [slider_text EXCEPT ![s] = SliderText(r.slider_value)]
    /\ response' = [response EXCEPT ![s] = Pending]
    /\ pc' = [pc EXCEPT ![s] = "dropdown"]
    /\ UNCHANGED <<cities_df, option, resolved>>

\* update_charts is entered: charts = [], slider_text is set
Enter(s, r) ==
    /\ request' = [request EXCEPT ![s] = r]
    /\ charts' = [charts EXCEPT ![s] = <<>>]
    /\ slider_text' = [slider_text EXCEPT ![s] = SliderText(r.slider_value)]
    /\ response' = [response EXCEPT ![s] = Pending]
    /\ pc' = [pc EXCEPT ![s] = "dropdown"]
    /\ UNCHANGED <<cities_df, option, resolved>>

\* the page is opened: the callback fires with the layout's values
PageLoad(s) ==
    /\ pc[s] = "load"
    /\ Enter(s, LayoutDefaults)

\* a control changes: the callback fires with the current values
ControlChange(s) ==
    /\ pc[s] = "idle"
    /\ \E r \in SessionRequests : Enter(s, r)

DropdownStep(s) ==
    /\ pc[s] = "dropdown"
    /\ charts' = [charts EXCEPT
                     ![s] = @ \o DropdownCharts(request[s].selected_cities)]
    /\ pc' = [pc EXCEPT ![s] = "slider"]
    /\ UNCHANGED <<cities_df, request, slider_text, response, option, resolved>>

SliderStep(s) ==
    /\ pc[s] = "slider"
    /\ charts' = [charts EXCEPT
                     ![s] = @ \o SliderCharts(request[s].slider_value)]
    /\ pc' = [pc EXCEPT ![s] = "checklist"]
    /\ UNCHANGED <<cities_df, request, slider_text, response, option, resolved>>

\* a checklist block that sorts the shared frame in place
ChecklistStepSortingInPlace(s) ==
    /\ pc[s] = "checklist"
    /\ charts' = [charts EXCEPT
                     ![s] = @ \o ChecklistCharts(request[s].selected_options)]
    /\ cities_df' = SortValuesAscending(cities_df, "file")
    /\ pc' = [pc EXCEPT ![s] = "return"]
    /\ UNCHANGED <<request, slider_text, response, option, resolved>>

ChecklistStep(s) ==
    /\ pc[s] = "checklist"
    /\ charts' = [charts EXCEPT
                     ![s] = @ \o ChecklistCharts(request[s].selected_options)]
    /\ pc' = [pc EXCEPT ![s] = "return"]
    /\ UNCHANGED <<cities_df, request, slider_text, response, option, resolved>>

ReturnStep(s) ==
    /\ pc[s] = "return"
    /\ response' = [response EXCEPT ![s] = Return(charts[s], slider_text[s])]
    /\ pc' = [pc EXCEPT ![s] = "idle"]
    /\ UNCHANGED <<cities_df, request, charts, slider_text, option, resolved>>

Next ==
    \E s \in Sessions :
        \/ PageLoad(s)
        \/ ControlChange(s)
        \/ DropdownStep(s)
        \/ SliderStep(s)
        \/ ChecklistStep(s)
        \/ ReturnStep(s)

Spec == Init /\ [][Next]_vars

----------------------------------------------------------------------------
(* One callback request, run as a whole, over broad inputs *)

InitRequest(frames, requests) ==
    /\ cities_df \in frames
    /\ request \in {[s \in Sessions |-> IF s = "s1" THEN r ELSE LayoutDefaults] :
                        r \in requests}
    /\ pc = [Idle EXCEPT !["s1"] = "called"]
    /\ charts = [s \in Sessions |-> <<>>]
    /\ slider_text = [s \in Sessions |-> ""]
    /\ response = [s \in Sessions |-> Pending]
    /\ option = ""
    /\ resolved = NoFilter

UpdateCharts(s) ==
    /\ pc[s] = "called"
    /\ response' = [response EXCEPT
                       ![s] = update_charts(request[s].selected_options,
                                            request[s].selected_cities,
                                            request[s].slider_value)]
    /\ pc' = [pc EXCEPT ![s] = "idle"]
    /\ UNCHANGED <<cities_df, request, charts, slider_text, option, resolved>>

NextCall == UpdateCharts("s1")

InitCall ==
    InitRequest(Frames(SampledCounts),
                Requests(SeqsUpTo(ChecklistValues, MaxChecklist),
                         SeqsUpTo(DropdownValues, MaxDropdown),
                         SampledSliderValues))

SpecCall == InitCall /\ [][NextCall]_vars

InitRaw ==
    InitRequest(Frames(SampledCounts),
                Requests(SeqsUpTo(ChecklistValues, MaxChecklist),
                         SeqsUpTo(DropdownValues, MaxDropdown),
                         RawSliderValues))

SpecRaw == InitRaw /\ [][NextCall]_vars

InitSlider ==
    InitRequest(Frames(AllCounts),
                Requests({<<>>, <<"top10">>},
                         {<<>>, <<CsvNames[1]>>},
                         SliderValues))

SpecSlider == InitSlider /\ [][NextCall]_vars

----------------------------------------------------------------------------
(* filter_by_checkboxes called on its own *)

InitFilter ==
    /\ cities_df \in Frames(AllCounts)
    /\ option \in ChecklistValues
    /\ resolved = NoFilter
    /\ request = [s \in Sessions |-> LayoutDefaults]
    /\ pc = [Idle EXCEPT !["s1"] = "filter"]
    /\ charts = [s \in Sessions |-> <<>>]
    /\ slider_text = [s \in Sessions |-> ""]
    /\ response = [s \in Sessions |-> Pending]

FilterByCheckboxes(s) ==
    /\ pc[s] = "filter"
    /\ resolved' = filter_by_checkboxes(option)
    /\ pc' = [pc EXCEPT ![s] = "idle"]
    /\ UNCHANGED <<cities_df, request, charts, slider_text, response, option>>

NextFilter == FilterByCheckboxes("s1")

SpecFilter == InitFilter /\ [][NextFilter]_vars

----------------------------------------------------------------------------
(* Properties *)

\* session s holds the result of a finished update_charts call
Returned(s) == pc[s] = "idle" /\ response[s] # Pending

\* the checklist entries that name a filter, in checklist order
Resolvable(selected_options) ==
    LET Known(k) == k \in FilterKeys
    IN  SelectSeq(selected_options, Known)

\* the first n rows of the frame, all of them if it has fewer
FirstRows(n) == [i \in 1..(IF n < Len(cities_df) THEN n ELSE Len(cities_df)) |-> cities_df[i]]

\* the last n rows of the frame in frame order, all of them if it has fewer
LastRows(n) ==
    LET k == IF n < Len(cities_df) THEN n ELSE Len(cities_df)
    IN  [i \in 1..k |-> cities_df[Len(cities_df) - k + i]]

\* the rows of the frame whose name is among `names`, each once, in frame order
RowsNamed(names) ==
    LET idx == {i \in 1..Len(cities_df) : \E j \in 1..Len(names) : cities_df[i].name = names[j]}
        Nth(j) == CHOOSE i \in idx : Cardinality({m \in idx : m <= i}) = j
    IN  [j \in 1..Cardinality(idx) |-> cities_df[Nth(j)]]

\* C1: the returned chart list is the dropdown block (a bar then a map, iff
\* the dropdown selection is non-empty), then the slider block (a bar then a
\* map, iff a slider value is present), then one chart per resolvable
\* checklist key in checklist order; no chart of a later block precedes a
\* chart of an earlier one.
C1_BlockOrder ==
    Returned("s1") =>
        LET r == request["s1"]
            g == response["s1"].children.graphs
            d == IF Len(r.selected_cities) > 0 THEN 2 ELSE 0
            n == IF r.slider_value # None THEN 2 ELSE 0
            keys == Resolvable(r.selected_options)
        IN  /\ Len(g) = d + n + Len(keys)
            /\ d = 2 =>
                 /\ g[1].kind = "bar" /\ g[2].kind = "map"
                 /\ g[1].color = Some("#9b59b6")
                 /\ <<g[1], g[2]>> = DropdownCharts(r.selected_cities)
            /\ n = 2 =>
                 /\ g[d + 1].kind = "bar" /\ g[d + 2].kind = "map"
                 /\ g[d + 1].color = Some("#f39c12")
                 /\ <<g[d + 1], g[d + 2]>> = SliderCharts(r.slider_value)
            /\ \A i \in 1..Len(keys) :
                 <<g[d + n + i]>> = OptionCharts(keys[i])

C1_Witness ==
    /\ Returned("s1")
    /\ request["s1"].selected_cities = <<"Los Angeles", "New York">>
    /\ request["s1"].slider_value = Some(SliderMin)
    /\ request["s1"].selected_options = <<"smallest10", "top5">>
    /\ Len(response["s1"].children.graphs) = 6
    /\ Len(cities_df) > 10

\* C2: on a frame sorted by population descending, of any length,
\* filter_by_checkboxes returns top5 -> the first 5 rows as a blue bar,
\* bottom5 -> the last 5 rows as a red bar, top10 -> the first 10 rows as a
\* green bar, largest10 -> the first 10 rows as a map with no fixed color,
\* smallest10 -> the last 10 rows as a map with no fixed color; rows keep the
\* frame's order and a shorter frame is returned whole.
C2_FilterTable ==
    (pc["s1"] = "idle" /\ option \in FilterKeys /\ IsSortedDescending(cities_df)) =>
        /\ option = "top5" =>
             /\ resolved.df = Some(FirstRows(5))
             /\ resolved.type = Some("bar") /\ resolved.color = Some("#3498db")
        /\ option = "bottom5" =>
             /\ resolved.df = Some(LastRows(5))
             /\ resolved.type = Some("bar") /\ resolved.color = Some("#e74c3c")
        /\ option = "top10" =>
             /\ resolved.df = Some(FirstRows(10))
             /\ resolved.type = Some("bar") /\ resolved.color = Some("#2ecc71")
        /\ option = "largest10" =>
             /\ resolved.df = Some(FirstRows(10))
             /\ resolved.type = Some("map") /\ resolved.color = None
        /\ option = "smallest10" =>
             /\ resolved.df = Some(LastRows(10))
             /\ resolved.type = Some("map") /\ resolved.color = None

C2_Witness ==
    /\ pc["s1"] = "idle"
    /\ option = "bottom5"
    /\ Len(cities_df) > 10
    /\ IsSortedDescending(cities_df)
    /\ resolved.df # None
    /\ Len(resolved.df[1]) = 5
    /\ resolved.df[1][5] = cities_df[Len(cities_df)]

\* C3: for a non-empty dropdown selection the first chart's rows are exactly
\* the frame's rows whose name is selected, in frame order, each once even
\* when a name is selected twice; the map that follows is over the same rows.
C3_DropdownSubset ==
    (Returned("s1") /\ Len(request["s1"].selected_cities) > 0) =>
        LET g == response["s1"].children.graphs
        IN  /\ Len(g) >= 2
            /\ g[1].kind = "bar"
            /\ g[1].rows = RowsNamed(request["s1"].selected_cities)
            /\ g[2].kind = "map"
            /\ g[2].rows = g[1].rows

C3_Witness ==
    /\ Returned("s1")
    /\ request["s1"].selected_cities = <<"New York", "New York">>
    /\ Len(response["s1"].children.graphs[1].rows) = 3

\* C4: for every slider value n in 1..20 the slider's bar chart and map chart
\* both have as rows exactly the first min(n, |D|) rows of the frame.
C4_SliderRows ==
    (Returned("s1") /\ request["s1"].slider_value # None) =>
        LET g == response["s1"].children.graphs
            n == request["s1"].slider_value[1]
            d == IF Len(request["s1"].selected_cities) > 0 THEN 2 ELSE 0
        IN  n \in SliderMin..SliderMax =>
              /\ Len(g) >= d + 2
              /\ g[d + 1].kind = "bar" /\ g[d + 2].kind = "map"
              /\ g[d + 1].rows = FirstRows(n)
              /\ g[d + 2].rows = FirstRows(n)
              /\ Len(g[d + 1].rows) = (IF n < Len(cities_df) THEN n ELSE Len(cities_df))

C4_Witness ==
    /\ Returned("s1")
    /\ request["s1"].slider_value = Some(SliderMax)
    /\ Len(cities_df) > SliderMax
    /\ Len(request["s1"].selected_cities) > 0
    /\ Len(response["s1"].children.graphs[3].rows) = SliderMax

\* C5: when the chart list a call built is empty it returns the single
\* 'no selection' message in place of a chart list; the slider status text
\* "Displaying top {slider_value} cities" is returned on that path as on the
\* chart path.
C5_EmptySelection ==
    \A s \in Sessions :
        Returned(s) =>
            /\ response[s].slider_output =
                   "Displaying top " \o Format(request[s].slider_value) \o " cities"
            /\ charts[s] = <<>> =>
                 /\ response[s].children.component = "Div"
                 /\ response[s].children.text = NoSelectionMessage
                 /\ response[s].children.graphs = <<>>
            /\ charts[s] # <<>> =>
                 /\ response[s].children.component = "list"
                 /\ response[s].children.graphs = charts[s]

C5_Witness ==
    /\ Returned("s1")
    /\ charts["s1"] = <<>>
    /\ response["s1"].children.component = "Div"
    /\ response["s1"].slider_output = "Displaying top None cities"

\* C6 as stated: with every control at its layout default the call returns
\* the one top5 bar chart.
C6_DefaultsGiveOneChart ==
    \A s \in Sessions :
        (Returned(s) /\ request[s] = LayoutDefaults) =>
            /\ response[s].children.component = "list"
            /\ Len(response[s].children.graphs) = 1
            /\ response[s].children.graphs[1].kind = "bar"
            /\ response[s].children.graphs[1].title = "Top 5 Most Populous US Cities (2014)"

\* C6 amended: with every control at its layout default (checklist [top5],
\* dropdown empty, slider 10) the call returns three charts and not the
\* 'no selection' message: the slider's bar and map over the first 10 rows,
\* then the top5 bar chart.
C6_DefaultsGiveThreeCharts ==
    \A s \in Sessions :
        (Returned(s) /\ request[s] = LayoutDefaults) =>
            LET g == response[s].children.graphs
            IN  /\ response[s].children.component = "list"
                /\ Len(g) = 3
                /\ g[1].kind = "bar" /\ g[1].rows = FirstRows(10)
                /\ g[1].title = "Top 10 Most Populous US Cities (2014)"
                /\ g[1].color = Some("#f39c12")
                /\ g[2].kind = "map" /\ g[2].rows = FirstRows(10)
                /\ g[3].kind = "bar" /\ g[3].rows = FirstRows(5)
                /\ g[3].title = "Top 5 Most Populous US Cities (2014)"
                /\ g[3].color = Some("#3498db")

C6_Witness ==
    /\ Returned("s1")
    /\ request["s1"] = LayoutDefaults
    /\ request["s1"].selected_options = <<"top5">>
    /\ request["s1"].slider_value = Some(10)
    /\ Len(response["s1"].children.graphs) = 3
    /\ Len(cities_df) > 10

\* C7: filter_by_checkboxes returns the all-None result for a key outside
\* the five filter keys, and update_charts returns exactly what it returns
\* for the same control values with the unknown keys removed.
C7_UnknownKeySkipped ==
    /\ \A k \in UnknownKeys : filter_by_checkboxes(k) = NoFilter
    /\ Returned("s1") =>
         response["s1"] = update_charts(Resolvable(request["s1"].selected_options),
                                        request["s1"].selected_cities,
                                        request["s1"].slider_value)

C7_Witness ==
    /\ Returned("s1")
    /\ request["s1"].selected_options = <<"top3", "bottom5">>
    /\ request["s1"].selected_cities = <<>>
    /\ request["s1"].slider_value = None
    /\ Len(response["s1"].children.graphs) = 1
    /\ response["s1"].children.graphs[1].title = "Bottom 5 Least Populous US Cities (2014)"

\* C8: whatever calls came before, two finished calls with identical control
\* values hold identical results (charts, order, rows, titles, colors and
\* status text).
C8_HistoryIndependent ==
    \A s, t \in Sessions :
        (Returned(s) /\ Returned(t) /\ request[s] = request[t]) =>
            response[s] = response[t]

C8_Witness ==
    /\ Returned("s1") /\ Returned("s2")
    /\ request["s1"] = request["s2"]
    /\ request["s1"].selected_options = <<"bottom5", "largest10">>
    /\ request["s1"].selected_cities # <<>>
    /\ Len(response["s1"].children.graphs) = 6

\* C9: after the load the frame stays sorted by population descending and no
\* step of any call, however the sessions' calls interleave, changes it.
C9_FrameReadOnly ==
    /\ [](IsSortedDescending(cities_df))
    /\ [][cities_df' = cities_df]_vars

C9_Witness ==
    /\ pc["s1"] = "return"
    /\ pc["s2"] = "slider"
    /\ request["s1"].selected_options = <<"bottom5", "largest10">>
    /\ Len(cities_df) > 10
    /\ cities_df[1].pop > cities_df[Len(cities_df)].pop
    /\ IsSortedDescending(cities_df)

\* C10: the number of charts returned is 2*[dropdown non-empty]
\* + 2*[slider value present and non-zero] + the number of checklist entries
\* that name a filter, counted with repetition; the 'no selection' message is
\* returned iff that number is 0; for a slider value in 1..20 it is never
\* returned; a non-empty dropdown selection matching no row still gives two
\* charts, over no rows.
C10_ChartCount ==
    Returned("s1") =>
        LET r == request["s1"]
            c == response["s1"].children
            d == IF Len(r.selected_cities) > 0 THEN 2 ELSE 0
            n == IF r.slider_value # None /\ r.slider_value[1] # 0 THEN 2 ELSE 0
            k == Cardinality({i \in 1..Len(r.selected_options) :
                                  r.selected_options[i] \in FilterKeys})
        IN  /\ Len(c.graphs) = d + n + k
            /\ c.component = "Div" <=> d + n + k = 0
            /\ c.component = "list" <=> d + n + k > 0
            /\ (r.slider_value # None /\ r.slider_value[1] \in SliderMin..SliderMax)
                 => c.component = "list"
            /\ (d = 2 /\ \A i \in 1..Len(cities_df) :
                             \A j \in 1..Len(r.selected_cities) :
                                 cities_df[i].name # r.selected_cities[j])
                 => /\ c.component = "list"
                    /\ c.graphs[1].rows = <<>> /\ c.graphs[2].rows = <<>>

C10_Witness ==
    /\ Returned("s1")
    /\ request["s1"].selected_cities = <<"Atlantis">>
    /\ request["s1"].slider_value = Some(0)
    /\ request["s1"].selected_options = <<"top5", "top5">>
    /\ Len(response["s1"].children.graphs) = 4
    /\ Len(cities_df) > 0

====
